---- MODULE Spec2Model ----
(***************************************************************************)
(* Model of the rule evaluation engine of expert_system: the fact base,    *)
(* the condition and action registries, Condition / Rule / Action, and     *)
(* the control loop of BaseExpertSystem as specialised by                  *)
(* StudentExpertSystem.                                                    *)
(*                                                                         *)
(* Python values are tagged records [t, v]: an int carries its number, a   *)
(* str the sequence of its code points, a tuple or list the sequence of    *)
(* its (tagged) elements.  A dict is a function whose DOMAIN is its key    *)
(* set.  The outcome of a Python call that may raise is a string: the      *)
(* value it returns ("True" / "False") or the exception class it raises.   *)
(***************************************************************************)
EXTENDS Integers, Sequences, FiniteSets, TLC

VARIABLES
    facts,          \* FactBase._facts                    : dict name -> value
    rules,          \* BaseExpertSystem.rules             : list of Rule
    fired_rules,    \* BaseExpertSystem.fired_rules       : list of rule names
    results,        \* BaseExpertSystem.results           : dict
    evaluators,     \* ConditionRegistry._evaluators      : dict name -> function
    handlers,       \* ActionRegistry._handlers           : dict type -> handler
    pc,             \* position of the caller / of run_evaluation
    error,          \* exception the last call raised to the caller ("none")
    sorted_rules,   \* run_evaluation: sorted_rules, as indices into rules
    rule_idx,       \* run_evaluation: position of the for loop in sorted_rules
    action_idx,     \* Rule.execute: position of the comprehension in actions
    fired_at_start, \* len(fired_rules) when the current pass started
    handler_calls,  \* handlers entered by the current pass, oldest first
    results_at_start, \* results as they were when the current pass started
    last_eval,      \* the last Condition.evaluate call made by a caller
    last_set,       \* the last FactBase.set call made by a caller
    checking,       \* a Rule.check call made by a caller, step by step
    returned        \* the dict last handed out by get_facts / get_results

vars == <<facts, rules, fired_rules, results, evaluators, handlers, pc, error,
          sorted_rules, rule_idx, action_idx, fired_at_start, handler_calls,
          results_at_start, last_eval, last_set, checking, returned>>

\* what callers observe outside a pass
caller_side == <<last_set, checking, returned>>

----------------------------------------------------------------------------
(* Bounds of the model.                                                    *)

MaxRules == 3      \* longest rule list registered
MaxFired == 1      \* a new pass starts only while len(fired_rules) < MaxFired

----------------------------------------------------------------------------
(* Python values.                                                          *)

PyInt(n) == [t |-> "int", v |-> n]
PyStr(s) == [t |-> "str", v |-> s]
PyTuple(s) == [t |-> "tuple", v |-> s]
PyList(s) == [t |-> "list", v |-> s]

EmptyDict == [k \in {} |-> 0]

\* d[k] = x on a dict
DictSet(d, k, x) == [j \in (DOMAIN d) \cup {k} |-> IF j = k THEN x ELSE d[j]]

\* d.update(other)
DictUpdate(d, other) ==
    [j \in (DOMAIN d) \cup (DOMAIN other) |->
        IF j \in DOMAIN other THEN other[j] ELSE d[j]]

\* a == b : structural equality, never raises
PyEq(a, b) == a.t = b.t /\ a.v = b.v

\* lexicographic s < u on sequences of integers (str < str)
RECURSIVE SeqLess(_, _)
SeqLess(s, u) ==
    IF u = <<>> THEN FALSE
    ELSE IF s = <<>> THEN TRUE
    ELSE IF Head(s) < Head(u) THEN TRUE
    ELSE IF Head(s) > Head(u) THEN FALSE
    ELSE SeqLess(Tail(s), Tail(u))

\* first index at which two sequences of values differ, 0 when one is a
\* prefix of the other
FirstDiff(s, u) ==
    LET n == IF Len(s) <= Len(u) THEN Len(s) ELSE Len(u)
        d == {i \in 1..n : ~PyEq(s[i], u[i])}
    IN IF d = {} THEN 0 ELSE CHOOSE i \in d : \A j \in d : i <= j

\* a < b (strict) or a <= b : "True", "False", or "TypeError" for operands
\* that do not order; tuples and lists order by their first differing element
RECURSIVE PyOrder(_, _, _)
PyOrder(a, b, strict) ==
    IF a.t = "int" /\ b.t = "int"
    THEN (IF a.v < b.v \/ (~strict /\ a.v = b.v) THEN "True" ELSE "False")
    ELSE IF a.t = "str" /\ b.t = "str"
    THEN (IF SeqLess(a.v, b.v) \/ (~strict /\ a.v = b.v)
          THEN "True" ELSE "False")
    ELSE IF a.t = b.t /\ a.t \in {"tuple", "list"}
    THEN LET i == FirstDiff(a.v, b.v)
         IN IF i # 0 THEN PyOrder(a.v[i], b.v[i], strict)
            ELSE IF Len(a.v) < Len(b.v) \/ (~strict /\ Len(a.v) = Len(b.v))
                 THEN "True" ELSE "False"
    ELSE "TypeError"

PyLt(a, b) == PyOrder(a, b, TRUE)
PyLe(a, b) == PyOrder(a, b, FALSE)

\* s occurs in u as a contiguous run (str in str)
IsSubstring(s, u) ==
    \E i \in 0..(Len(u) - Len(s)) : SubSeq(u, i + 1, i + Len(s)) = s

\* item in container
PyIn(item, container) ==
    IF container.t \in {"tuple", "list"}
    THEN (IF \E i \in 1..Len(container.v) : PyEq(container.v[i], item)
          THEN "True" ELSE "False")
    ELSE IF container.t = "str"
    THEN (IF item.t # "str" THEN "TypeError"
          ELSE IF IsSubstring(item.v, container.v) THEN "True" ELSE "False")
    ELSE "TypeError"

\* min_val, max_val = expected_value : the pair, or the exception raised
Unpack2(x) ==
    IF x.t \in {"tuple", "list"}
    THEN (IF Len(x.v) = 2 THEN [ok |-> "True", lo |-> x.v[1], hi |-> x.v[2]]
          ELSE [ok |-> "ValueError"])
    ELSE IF x.t = "str"
    THEN (IF Len(x.v) = 2
          THEN [ok |-> "True", lo |-> PyStr(<<x.v[1]>>), hi |-> PyStr(<<x.v[2]>>)]
          ELSE [ok |-> "ValueError"])
    ELSE [ok |-> "TypeError"]

----------------------------------------------------------------------------
(* condition/evaluators.py : the predicates.                               *)

\* between with the upper bound included: min_val <= fact_value <= max_val
betweenClosed(fact_value, expected_value) ==
    LET u == Unpack2(expected_value) IN
    IF u.ok # "True" THEN u.ok
    ELSE LET first == PyLe(u.lo, fact_value) IN
         IF first # "True" THEN first ELSE PyLe(fact_value, u.hi)

\* NumericRangeEvaluator.between
between(fact_value, expected_value) ==
    LET u == Unpack2(expected_value) IN
    IF u.ok # "True" THEN u.ok
    ELSE LET first == PyLe(u.lo, fact_value) IN
         IF first # "True" THEN first ELSE PyLt(fact_value, u.hi)

gte(fact_value, expected_value) == PyLe(expected_value, fact_value)
lte(fact_value, expected_value) == PyLe(fact_value, expected_value)
gt(fact_value, expected_value) == PyLt(expected_value, fact_value)
lt(fact_value, expected_value) == PyLt(fact_value, expected_value)

\* LogicalEvaluator
eq(fact_value, expected_value) ==
    IF PyEq(fact_value, expected_value) THEN "True" ELSE "False"
neq(fact_value, expected_value) ==
    IF PyEq(fact_value, expected_value) THEN "False" ELSE "True"
in_list(fact_value, expected_value) == PyIn(fact_value, expected_value)
contains(fact_value, expected_value) == PyIn(expected_value, fact_value)

\* calling the function object fn on (fact_value, expected_value)
Call(fn, fact_value, expected_value) ==
    CASE fn = "gte" -> gte(fact_value, expected_value)
      [] fn = "lte" -> lte(fact_value, expected_value)
      [] fn = "gt" -> gt(fact_value, expected_value)
      [] fn = "lt" -> lt(fact_value, expected_value)
      [] fn = "between" -> between(fact_value, expected_value)
      [] fn = "eq" -> eq(fact_value, expected_value)
      [] fn = "neq" -> neq(fact_value, expected_value)
      [] fn = "in_list" -> in_list(fact_value, expected_value)
      [] fn = "contains" -> contains(fact_value, expected_value)

----------------------------------------------------------------------------
(* condition/evaluators.py : ConditionRegistry.                            *)

\* ConditionRegistry.register(name, evaluator)
register(registry, name, evaluator) == DictSet(registry, name, evaluator)

\* the register calls of _register_defaults, in order: <<key, function>>,
\* the key being function.__name__ except for the literal 'in'
DefaultRegistrations ==
    << <<"gte", "gte">>, <<"lte", "lte">>, <<"gt", "gt">>, <<"lt", "lt">>,
       <<"between", "between">>,
       <<"eq", "eq">>, <<"eq", "neq">>,
       <<"in", "in_list">>, <<"contains", "contains">> >>

RECURSIVE RegisterAll(_, _)
RegisterAll(registry, calls) ==
    IF calls = <<>> THEN registry
    ELSE RegisterAll(register(registry, Head(calls)[1], Head(calls)[2]),
                     Tail(calls))

\* ConditionRegistry.__init__
NewConditionRegistry == RegisterAll(EmptyDict, DefaultRegistrations)

\* ConditionRegistry.has
RegistryHas(registry, name) == name \in DOMAIN registry

\* ConditionRegistry.get : the function, or the exception raised
RegistryGet(registry, name) ==
    IF name \notin DOMAIN registry THEN "ValueError" ELSE registry[name]

----------------------------------------------------------------------------
(* action/base.py : ActionRegistry.                                        *)

\* ActionRegistry.has
HandlerHas(registry, action_type) == action_type \in DOMAIN registry

\* ActionRegistry.get : the handler, or the exception raised
HandlerGet(registry, action_type) ==
    IF action_type \notin DOMAIN registry THEN "ValueError"
    ELSE registry[action_type]

----------------------------------------------------------------------------
(* fact_base.py : FactBase.                                                *)

\* bool(x) of a stored value; a missing key reads as None, which is falsy
Truthy(x) ==
    CASE x.t = "int" -> x.v # 0
      [] x.t \in {"str", "tuple", "list"} -> x.v # <<>>

\* FactBase.has
FactHas(fb, name) == name \in DOMAIN fb

\* FactBase.set guarded by "name not in self._facts" where the code tests
\* the stored value's truth
StoresWhenAbsent(fb, name, overwrite) == ~FactHas(fb, name) \/ overwrite

\* FactBase.set: not self._facts.get(name) or overwrite
Stores(fb, name, overwrite) ==
    ~(FactHas(fb, name) /\ Truthy(fb[name])) \/ overwrite

\* FactBase.set(name, value, overwrite)
FactSet(fb, name, value, overwrite) ==
    IF Stores(fb, name, overwrite) THEN DictSet(fb, name, value) ELSE fb

\* FactBase.update
FactUpdate(fb, new_facts) == DictUpdate(fb, new_facts)

----------------------------------------------------------------------------
(* condition/base.py : Condition.evaluate.                                 *)

Condition(fact_name, operator, value) ==
    [fact_name |-> fact_name, operator |-> operator, value |-> value]

\* Evaluate with the try / except dropped: what the evaluator raises leaves
\* the call
EvaluatePropagates(cond, fb, registry) ==
    IF ~FactHas(fb, cond.fact_name) THEN "False"
    ELSE LET evaluator == RegistryGet(registry, cond.operator)
         IN IF evaluator = "ValueError" THEN "ValueError"
            ELSE Call(evaluator, fb[cond.fact_name], cond.value)

\* Evaluate with the operator resolved before the fact is looked for
EvaluateLookupFirst(cond, fb, registry) ==
    LET evaluator == RegistryGet(registry, cond.operator)
    IN IF evaluator = "ValueError" THEN "ValueError"
       ELSE IF ~FactHas(fb, cond.fact_name) THEN "False"
       ELSE LET r == Call(evaluator, fb[cond.fact_name], cond.value)
            IN IF r \in {"True", "False"} THEN r ELSE "False"

\* Condition.evaluate: "True" / "False", or "ValueError" when registry.get
\* raises; whatever the evaluator itself raises is caught and becomes "False"
Evaluate(cond, fb, registry) ==
    IF ~FactHas(fb, cond.fact_name) THEN "False"
    ELSE LET fact_value == fb[cond.fact_name]
             evaluator == RegistryGet(registry, cond.operator)
         IN IF evaluator = "ValueError" THEN "ValueError"
            ELSE LET r == Call(evaluator, fact_value, cond.value)
                 IN IF r \in {"True", "False"} THEN r ELSE "False"

----------------------------------------------------------------------------
(* rule.py : Rule.                                                         *)

Action(action_type, parameters) ==
    [action_type |-> action_type, parameters |-> parameters]

Rule(name, conditions, actions, priority) ==
    [name |-> name, conditions |-> conditions, actions |-> actions,
     priority |-> priority]

\* Rule.check with any() in the place of all()
AnyCondition(conditions, fb, registry) ==
    IF \E k \in 1..Len(conditions) :
           Evaluate(conditions[k], fb, registry) = "True"
    THEN "True" ELSE "False"

\* all(condition.evaluate(...) for condition in conditions): the generator
\* is consumed in order and all() stops at the first false value
RECURSIVE AllConditions(_, _, _)
AllConditions(conditions, fb, registry) ==
    IF conditions = <<>> THEN "True"
    ELSE LET r == Evaluate(Head(conditions), fb, registry)
         IN IF r = "True" THEN AllConditions(Tail(conditions), fb, registry)
            ELSE r

\* Rule.check
Check(rule, fb, registry) == AllConditions(rule.conditions, fb, registry)

----------------------------------------------------------------------------
(* student.py : the action handlers of StudentExpertSystem.  A handler     *)
(* yields the results dict it leaves behind and the exception it raised.   *)

Returned(res) == [results |-> res, exc |-> "none"]
Raised(res, exc) == [results |-> res, exc |-> exc]

\* handler(self, **parameters): the keyword arguments must cover the
\* required parameters and name no parameter the handler lacks
Binds(parameters, required, optional) ==
    /\ required \subseteq DOMAIN parameters
    /\ DOMAIN parameters \subseteq required \cup optional

\* results['recommendations'].append(recommendation)
AppendRecommendation(res, recommendation) ==
    IF "recommendations" \notin DOMAIN res THEN Raised(res, "KeyError")
    ELSE Returned([res EXCEPT !["recommendations"] =
                                    Append(@, recommendation)])

\* _handle_set_result without its append to recommendations
SetResultWithoutRecommendation(res, parameters) ==
    IF ~Binds(parameters, {"probability", "status", "recommendation"}, {})
    THEN Raised(res, "TypeError")
    ELSE Returned(DictSet(DictSet(res, "admission_probability",
                                  parameters.probability),
                          "status", parameters.status))

_handle_set_result(res, parameters) ==
    IF ~Binds(parameters, {"probability", "status", "recommendation"}, {})
    THEN Raised(res, "TypeError")
    ELSE LET r1 == DictSet(res, "admission_probability",
                           parameters.probability)
             r2 == DictSet(r1, "status", parameters.status)
         IN AppendRecommendation(r2, parameters.recommendation)

_handle_add_recommendation(res, parameters) ==
    IF ~Binds(parameters, {"recommendation"}, {"probability", "status"})
    THEN Raised(res, "TypeError")
    ELSE LET has_p == /\ "probability" \in DOMAIN parameters
                      /\ parameters.probability # 0
             has_s == /\ "status" \in DOMAIN parameters
                      /\ parameters.status # ""
         IN IF has_p /\ "admission_probability" \notin DOMAIN res
            THEN Raised(res, "KeyError")
            ELSE LET r1 == IF has_p /\ parameters.probability
                                         > res["admission_probability"]
                           THEN DictSet(res, "admission_probability",
                                        parameters.probability)
                           ELSE res
                 IN IF has_s /\ "status" \notin DOMAIN r1
                    THEN Raised(r1, "KeyError")
                    ELSE LET r2 == IF has_s /\ r1["status"] = "N/A"
                                   THEN DictSet(r1, "status",
                                                parameters.status)
                                   ELSE r1
                         IN AppendRecommendation(r2,
                                                 parameters.recommendation)

Max(a, b) == IF a >= b THEN a ELSE b
Min(a, b) == IF a <= b THEN a ELSE b

_handle_update_probability(res, parameters) ==
    IF ~Binds(parameters, {"delta"}, {}) THEN Raised(res, "TypeError")
    ELSE IF "admission_probability" \notin DOMAIN res
    THEN Raised(res, "KeyError")
    ELSE Returned(DictSet(res, "admission_probability",
            Max(0, Min(100, res["admission_probability"]
                                + parameters.delta))))

\* calling the handler object h
CallHandler(h, res, parameters) ==
    CASE h = "_handle_set_result" -> _handle_set_result(res, parameters)
      [] h = "_handle_add_recommendation" ->
             _handle_add_recommendation(res, parameters)
      [] h = "_handle_update_probability" ->
             _handle_update_probability(res, parameters)

\* StudentExpertSystem._setup_custom_actions
StudentHandlers ==
    [k \in {"set_result", "add_recommendation", "update_probability"} |->
        CASE k = "set_result" -> "_handle_set_result"
          [] k = "add_recommendation" -> "_handle_add_recommendation"
          [] k = "update_probability" -> "_handle_update_probability"]

\* StudentExpertSystem.__init__ : the results of a new engine
StudentResults ==
    [admission_probability |-> 0, recommendations |-> <<>>, status |-> "N/A"]

----------------------------------------------------------------------------
(* base.py : sorted(self.rules, key=lambda r: r.priority, reverse=True).   *)
(* The sort is stable: rules of equal priority keep their list order.  It  *)
(* is computed on the positions 1..len(rules) of the rule objects.         *)

\* InsertByPriority going before the positions of equal priority: a sort
\* that is not stable
RECURSIVE InsertBeforeEqual(_, _, _)
InsertBeforeEqual(placed, i, rs) ==
    IF placed = <<>> THEN <<i>>
    ELSE IF rs[Head(placed)].priority > rs[i].priority
         THEN <<Head(placed)>> \o InsertBeforeEqual(Tail(placed), i, rs)
         ELSE <<i>> \o placed

\* position i goes behind every position already placed whose priority is
\* not lower
RECURSIVE InsertByPriority(_, _, _)
InsertByPriority(placed, i, rs) ==
    IF placed = <<>> THEN <<i>>
    ELSE IF rs[Head(placed)].priority >= rs[i].priority
         THEN <<Head(placed)>> \o InsertByPriority(Tail(placed), i, rs)
         ELSE <<i>> \o placed

RECURSIVE SortPrefix(_, _)
SortPrefix(rs, n) ==
    IF n = 0 THEN <<>>
    ELSE InsertByPriority(SortPrefix(rs, n - 1), n, rs)

SortedByPriority(rs) == SortPrefix(rs, Len(rs))

----------------------------------------------------------------------------
(* Inputs the callers of the model supply.                                 *)

Ab == PyStr(<<97, 98>>)                 \* 'ab'

\* dicts handed to add_facts
FactInputs ==
    { [assignments |-> PyInt(55), report |-> PyInt(60), test |-> PyInt(45)],
      [test |-> Ab] }

\* (name, value) pairs handed to add_fact
AddFactInputs == { <<"test", PyInt(45)>> }

Moderate ==
    Rule("moderate",
         << Condition("assignments", "between",
                      PyTuple(<<PyInt(50), PyInt(60)>>)),
            Condition("report", "between", PyTuple(<<PyInt(50), PyInt(70)>>)),
            Condition("test", "between", PyTuple(<<PyInt(40), PyInt(60)>>)) >>,
         << Action("set_result",
                   [probability |-> 60, status |-> "moderate",
                    recommendation |-> "improve all"]) >>,
         8)

Always ==
    Rule("always", <<>>,
         << Action("add_recommendation",
                   [recommendation |-> "keep going", probability |-> 70,
                    status |-> "good"]) >>,
         5)

Top ==
    Rule("top", << Condition("test", "gte", PyInt(40)) >>,
         << Action("update_probability", [delta |-> 10]) >>,
         10)

UnknownOp ==
    Rule("unknown_op", << Condition("report", "unknown_op", PyInt(1)) >>,
         << Action("update_probability", [delta |-> 5]) >>,
         5)

UnknownAction ==
    Rule("unknown_action", << Condition("test", "lt", PyInt(50)) >>,
         << Action("update_probability", [delta |-> 10]),
            Action("notify", EmptyDict) >>,
         8)

RulePool == {Moderate, Always, Top, UnknownOp, UnknownAction}

\* lists handed to add_rules
RuleListInputs == { <<Always, Top>>, <<UnknownAction, Moderate>> }

----------------------------------------------------------------------------
(* base.py / student.py : the engine.                                      *)

NoCondition == Condition("", "", PyInt(0))

\* no FactBase.set call has been made on the facts as they are
NotSet ==
    [called |-> FALSE, name |-> "", value |-> PyInt(0), overwrite |-> TRUE,
     before |-> EmptyDict]

\* no Rule.check call has been made
NotChecking ==
    [state |-> "none", conditions |-> <<>>, idx |-> 0, looked_up |-> <<>>,
     invoked |-> <<>>, outcome |-> "none", fact_base |-> EmptyDict]

\* no dict has been handed out
NothingReturned == [src |-> "none", d |-> EmptyDict, shared |-> {}]

Init ==
    /\ facts = EmptyDict
    /\ rules = <<>>
    /\ fired_rules = <<>>
    /\ results = StudentResults
    /\ evaluators = NewConditionRegistry
    /\ handlers = StudentHandlers
    /\ pc = "idle"
    /\ error = "none"
    /\ sorted_rules = <<>>
    /\ rule_idx = 0
    /\ action_idx = 0
    /\ fired_at_start = 0
    /\ handler_calls = <<>>
    /\ results_at_start = EmptyDict
    /\ last_eval = [cond |-> NoCondition, outcome |-> "none"]
    /\ last_set = NotSet
    /\ checking = NotChecking
    /\ returned = NothingReturned

\* no call is in progress: the caller may make the next one
AtCaller == pc \in {"idle", "done", "raised"}

\* a call other than run_evaluation returns: the frame of the last pass is
\* gone
Returns ==
    /\ pc' = "idle"
    /\ error' = "none"
    /\ sorted_rules' = <<>>
    /\ rule_idx' = 0
    /\ action_idx' = 0
    /\ fired_at_start' = 0
    /\ handler_calls' = <<>>
    /\ results_at_start' = EmptyDict

add_fact(name, value) ==
    /\ AtCaller
    /\ facts' = FactSet(facts, name, value, TRUE)
    /\ Returns
    /\ UNCHANGED <<rules, fired_rules, results, evaluators, handlers,
                   last_eval, caller_side>>

add_facts(new_facts) ==
    /\ AtCaller
    /\ facts' = FactUpdate(facts, new_facts)
    /\ Returns
    /\ UNCHANGED <<rules, fired_rules, results, evaluators, handlers,
                   last_eval, caller_side>>

add_rule(rule) ==
    /\ AtCaller
    /\ Len(rules) < MaxRules
    /\ rules' = Append(rules, rule)
    /\ Returns
    /\ UNCHANGED <<facts, fired_rules, results, evaluators, handlers,
                   last_eval, caller_side>>

add_rules(new_rules) ==
    /\ AtCaller
    /\ Len(rules) + Len(new_rules) <= MaxRules
    /\ rules' = rules \o new_rules
    /\ Returns
    /\ UNCHANGED <<facts, fired_rules, results, evaluators, handlers,
                   last_eval, caller_side>>

reset ==
    /\ AtCaller
    /\ facts' = EmptyDict
    /\ fired_rules' = <<>>
    /\ results' = EmptyDict
    /\ Returns
    /\ UNCHANGED <<rules, evaluators, handlers,
                   last_eval, caller_side>>

\* run_evaluation is entered: the rules are sorted
run_evaluation ==
    /\ AtCaller
    /\ Len(fired_rules) < MaxFired
    /\ sorted_rules' = SortedByPriority(rules)
    /\ rule_idx' = 1
    /\ action_idx' = 0
    /\ fired_at_start' = Len(fired_rules)
    /\ handler_calls' = <<>>
    /\ results_at_start' = results
    /\ error' = "none"
    /\ pc' = "loop"
    /\ UNCHANGED <<facts, rules, fired_rules, results, evaluators, handlers,
                   last_eval, caller_side>>

CurrentRule == rules[sorted_rules[rule_idx]]

\* the for loop is exhausted: run_evaluation returns
PassDone ==
    /\ pc = "loop"
    /\ rule_idx > Len(sorted_rules)
    /\ pc' = "done"
    /\ UNCHANGED <<facts, rules, fired_rules, results, evaluators, handlers,
                   error, sorted_rules, rule_idx, action_idx, fired_at_start,
                   handler_calls, results_at_start,
                   last_eval, caller_side>>

\* rule.check(...) is true: the name is logged and rule.execute is entered
RuleFires ==
    /\ pc = "loop"
    /\ rule_idx <= Len(sorted_rules)
    /\ Check(CurrentRule, facts, evaluators) = "True"
    /\ fired_rules' = Append(fired_rules, CurrentRule.name)
    /\ action_idx' = 1
    /\ pc' = "exec"
    /\ UNCHANGED <<facts, rules, results, evaluators, handlers, error,
                   sorted_rules, rule_idx, fired_at_start, handler_calls,
                   results_at_start,
                   last_eval, caller_side>>

\* rule.check(...) is false: the loop moves on
RuleSkipped ==
    /\ pc = "loop"
    /\ rule_idx <= Len(sorted_rules)
    /\ Check(CurrentRule, facts, evaluators) = "False"
    /\ rule_idx' = rule_idx + 1
    /\ UNCHANGED <<facts, rules, fired_rules, results, evaluators, handlers,
                   pc, error, sorted_rules, action_idx, fired_at_start,
                   handler_calls, results_at_start,
                   last_eval, caller_side>>

\* rule.check(...) raises out of registry.get: run_evaluation raises
CheckRaises ==
    /\ pc = "loop"
    /\ rule_idx <= Len(sorted_rules)
    /\ Check(CurrentRule, facts, evaluators) = "ValueError"
    /\ pc' = "raised"
    /\ error' = "ValueError: Unknown operator"
    /\ UNCHANGED <<facts, rules, fired_rules, results, evaluators, handlers,
                   sorted_rules, rule_idx, action_idx, fired_at_start,
                   handler_calls, results_at_start,
                   last_eval, caller_side>>

CurrentAction == CurrentRule.actions[action_idx]

\* execute_action undoing the pass when action_registry.get raises
LookupRaisesWithRollback ==
    /\ pc = "exec"
    /\ action_idx <= Len(CurrentRule.actions)
    /\ HandlerGet(handlers, CurrentAction.action_type) = "ValueError"
    /\ pc' = "raised"
    /\ error' = "ValueError: Unknown action type"
    /\ fired_rules' = SubSeq(fired_rules, 1, fired_at_start)
    /\ results' = results_at_start
    /\ UNCHANGED <<facts, rules, evaluators, handlers,
                   sorted_rules, rule_idx, action_idx, fired_at_start,
                   handler_calls, results_at_start,
                   last_eval, caller_side>>

\* execute_action: action_registry.get raises
LookupRaises ==
    /\ pc = "exec"
    /\ action_idx <= Len(CurrentRule.actions)
    /\ HandlerGet(handlers, CurrentAction.action_type) = "ValueError"
    /\ pc' = "raised"
    /\ error' = "ValueError: Unknown action type"
    /\ UNCHANGED <<facts, rules, fired_rules, results, evaluators, handlers,
                   sorted_rules, rule_idx, action_idx, fired_at_start,
                   handler_calls, results_at_start,
                   last_eval, caller_side>>

\* execute_action with handlers that also record their action type as a fact
HandlerRunsWritingFact ==
    /\ pc = "exec"
    /\ action_idx <= Len(CurrentRule.actions)
    /\ HandlerGet(handlers, CurrentAction.action_type) # "ValueError"
    /\ LET out == CallHandler(HandlerGet(handlers, CurrentAction.action_type),
                              results, CurrentAction.parameters)
       IN /\ results' = out.results
          /\ facts' = DictSet(facts, CurrentAction.action_type, PyInt(1))
          /\ handler_calls' = Append(handler_calls, CurrentAction.action_type)
          /\ IF out.exc = "none"
             THEN /\ action_idx' = action_idx + 1
                  /\ UNCHANGED <<pc, error>>
             ELSE /\ pc' = "raised"
                  /\ error' = out.exc
                  /\ UNCHANGED action_idx
    /\ UNCHANGED <<rules, fired_rules, evaluators, handlers,
                   sorted_rules, rule_idx, fired_at_start, results_at_start,
                   last_eval, caller_side>>

\* execute_action: the handler is called and returns or raises
HandlerRuns ==
    /\ pc = "exec"
    /\ action_idx <= Len(CurrentRule.actions)
    /\ HandlerGet(handlers, CurrentAction.action_type) # "ValueError"
    /\ LET out == CallHandler(HandlerGet(handlers, CurrentAction.action_type),
                              results, CurrentAction.parameters)
       IN /\ results' = out.results
          /\ handler_calls' = Append(handler_calls, CurrentAction.action_type)
          /\ IF out.exc = "none"
             THEN /\ action_idx' = action_idx + 1
                  /\ UNCHANGED <<pc, error>>
             ELSE /\ pc' = "raised"
                  /\ error' = out.exc
                  /\ UNCHANGED action_idx
    /\ UNCHANGED <<facts, rules, fired_rules, evaluators, handlers,
                   sorted_rules, rule_idx, fired_at_start, results_at_start,
                   last_eval, caller_side>>

\* rule.execute returns: the loop moves on
RuleExecuted ==
    /\ pc = "exec"
    /\ action_idx > Len(CurrentRule.actions)
    /\ rule_idx' = rule_idx + 1
    /\ action_idx' = 0
    /\ pc' = "loop"
    /\ UNCHANGED <<facts, rules, fired_rules, results, evaluators, handlers,
                   error, sorted_rules, fired_at_start, handler_calls,
                   results_at_start,
                   last_eval, caller_side>>

Next ==
    \/ \E p \in AddFactInputs : add_fact(p[1], p[2])
    \/ \E f \in FactInputs : add_facts(f)
    \/ \E r \in RulePool : add_rule(r)
    \/ \E rs \in RuleListInputs : add_rules(rs)
    \/ reset
    \/ run_evaluation
    \/ PassDone
    \/ RuleFires
    \/ RuleSkipped
    \/ CheckRaises
    \/ LookupRaises
    \/ HandlerRuns
    \/ RuleExecuted

Spec == Init /\ [][Next]_vars

----------------------------------------------------------------------------
(* Condition.evaluate and the FactBase driven directly by a caller.        *)
(* last_eval holds the condition last evaluated against the facts as they  *)
(* are now, and what the call gave: it is forgotten when the facts change. *)

OperatorNames ==
    {"gte", "lte", "gt", "lt", "between", "eq", "neq", "in", "contains",
     "unknown_op"}

\* values a caller stores
ValuePool ==
    { PyInt(0), PyInt(45), PyInt(60), PyStr(<<>>), Ab,
      PyTuple(<<PyInt(40), PyInt(60)>>), PyList(<<PyInt(45), Ab>>) }

\* expected values of the conditions a caller builds
ExpectedPool ==
    { PyInt(45), PyInt(60), Ab,
      PyTuple(<<PyInt(40), PyInt(60)>>), PyList(<<PyInt(45), Ab>>) }

ConditionPool ==
    { Condition(n, op, v) : n \in {"report", "test"}, op \in OperatorNames,
                            v \in ExpectedPool }

\* range conditions over integer bounds, in and out of order
BetweenBounds == {-1, 0, 45, 60}

BetweenConditions ==
    { Condition("test", "between", PyTuple(<<PyInt(lo), PyInt(hi)>>)) :
          lo \in BetweenBounds, hi \in BetweenBounds }

NotEvaluated == [cond |-> NoCondition, outcome |-> "none"]

FactsOnly ==
    UNCHANGED <<rules, fired_rules, results, evaluators, handlers, pc, error,
                sorted_rules, rule_idx, action_idx, fired_at_start,
                handler_calls, results_at_start>>

\* no caller is inside Rule.check
NotInCheck == checking.state # "running"

\* the dict handed out after the engine's dict src lost or replaced the
\* values under keys: those values are no longer the objects it holds
Unshared(src, keys) ==
    IF returned.src = src
    THEN [returned EXCEPT !.shared = @ \ keys]
    ELSE returned

\* fact_base.set(name, value, overwrite)
fact_set(name, value, overwrite) ==
    /\ NotInCheck
    /\ facts' = FactSet(facts, name, value, overwrite)
    /\ last_eval' = NotEvaluated
    /\ last_set' = [called |-> TRUE, name |-> name, value |-> value,
                    overwrite |-> overwrite, before |-> facts]
    /\ returned' = IF Stores(facts, name, overwrite)
                   THEN Unshared("facts", {name}) ELSE returned
    /\ UNCHANGED checking
    /\ FactsOnly

\* fact_base.clear()
fact_clear ==
    /\ NotInCheck
    /\ facts' = EmptyDict
    /\ last_eval' = NotEvaluated
    /\ last_set' = NotSet
    /\ returned' = Unshared("facts", DOMAIN facts)
    /\ UNCHANGED checking
    /\ FactsOnly

\* condition.evaluate(fact_base, condition_registry)
evaluate(cond) ==
    /\ last_eval' = [cond |-> cond,
                     outcome |-> Evaluate(cond, facts, evaluators)]
    /\ UNCHANGED <<facts, last_set, checking, returned>>
    /\ FactsOnly

NextCondition ==
    \/ \E v \in ValuePool, o \in BOOLEAN : fact_set("test", v, o)
    \/ fact_clear
    \/ \E c \in ConditionPool \cup BetweenConditions : evaluate(c)

SpecCondition == Init /\ [][NextCondition]_vars

----------------------------------------------------------------------------
(* get_facts / get_results and what a caller does with the dict it gets.   *)
(* dict.copy() is shallow: the new dict has its own keys, and under each   *)
(* key the very object the engine's dict holds.  returned.shared is the    *)
(* set of keys under which that is still so; a list mutated in place under *)
(* such a key is the engine's list.                                        *)

MaxListLen == 2    \* a caller appends to a list only while it is shorter

\* the engine's dict a handed-out dict was copied from
SourceDict(src) == IF src = "facts" THEN facts ELSE results

\* the value under key k of such a dict is a list
HoldsList(src, d, k) ==
    /\ k \in DOMAIN d
    /\ IF src = "facts" THEN d[k].t = "list" ELSE k = "recommendations"

ListLen(src, x) == IF src = "facts" THEN Len(x.v) ELSE Len(x)

\* x.append(item)
ListAppend(src, x, item) ==
    IF src = "facts" THEN PyList(Append(x.v, item)) ELSE Append(x, item)

CopyOnly ==
    UNCHANGED <<rules, fired_rules, evaluators, handlers, pc, error,
                sorted_rules, rule_idx, action_idx, fired_at_start,
                handler_calls, results_at_start, last_eval, last_set,
                checking>>

\* BaseExpertSystem.get_facts -> FactBase.all() : self._facts.copy()
get_facts ==
    /\ returned' = [src |-> "facts", d |-> facts, shared |-> DOMAIN facts]
    /\ UNCHANGED <<facts, results>>
    /\ CopyOnly

\* BaseExpertSystem.get_results : self.results.copy()
get_results ==
    /\ returned' = [src |-> "results", d |-> results,
                    shared |-> DOMAIN results]
    /\ UNCHANGED <<facts, results>>
    /\ CopyOnly

\* the caller: returned[k] = value
returned_set(k, value) ==
    /\ returned.src # "none"
    /\ returned' = [returned EXCEPT !.d = DictSet(@, k, value),
                                    !.shared = @ \ {k}]
    /\ UNCHANGED <<facts, results>>
    /\ CopyOnly

\* the caller: del returned[k]
returned_del(k) ==
    /\ returned.src # "none"
    /\ k \in DOMAIN returned.d
    /\ returned' = [returned EXCEPT
                        !.d = [j \in (DOMAIN @) \ {k} |-> @[j]],
                        !.shared = @ \ {k}]
    /\ UNCHANGED <<facts, results>>
    /\ CopyOnly

\* the caller: returned[k].append(item), on a list
returned_append(k, item) ==
    /\ returned.src # "none"
    /\ HoldsList(returned.src, returned.d, k)
    /\ ListLen(returned.src, returned.d[k]) < MaxListLen
    /\ LET grown == ListAppend(returned.src, returned.d[k], item)
       IN /\ returned' = [returned EXCEPT !.d = DictSet(@, k, grown)]
          /\ IF k \in returned.shared
             THEN IF returned.src = "facts"
                  THEN /\ facts' = DictSet(facts, k, grown)
                       /\ UNCHANGED results
                  ELSE /\ results' = DictSet(results, k, grown)
                       /\ UNCHANGED facts
             ELSE UNCHANGED <<facts, results>>
    /\ CopyOnly

\* what a caller can do through the dict it was handed
CallerMutates ==
    \/ \E k \in {"test", "extra"} : returned_set(k, PyInt(45))
    \/ \E k \in {"test", "status", "recommendations"} : returned_del(k)
    \/ returned_append("test", PyInt(0))
    \/ returned_append("recommendations", "tampered")

NextCopy ==
    \/ \E v \in ValuePool : fact_set("test", v, TRUE)
    \/ fact_clear
    \/ get_facts
    \/ get_results
    \/ CallerMutates

SpecCopy == Init /\ [][NextCopy]_vars

----------------------------------------------------------------------------
(* Rule.check called by a caller, one condition at a time: all() draws the *)
(* next condition.evaluate(...) from the generator and stops at the first  *)
(* value that is not true.  checking.looked_up lists the positions of the  *)
(* conditions whose operator was handed to registry.get, checking.invoked  *)
(* those whose evaluator was called, checking.fact_base the fact base the  *)
(* check was given.                                                        *)

MaxConditions == 3      \* longest condition list checked

CheckConditions ==
    { Condition("test", "lt", PyInt(50)),
      Condition("test", "gte", PyInt(60)),
      Condition("test", "unknown_op", PyInt(1)) }

ConditionLists ==
    UNION { [1..n -> CheckConditions] : n \in 0..MaxConditions }

\* all() looking past every value but an exception
AllStopsOnRaise(value) == value = "ValueError"

\* all() stops drawing from the generator at this value
AllStops(value) == value # "True"

CheckOnly ==
    UNCHANGED <<facts, rules, fired_rules, results, evaluators, handlers, pc,
                error, sorted_rules, rule_idx, action_idx, fired_at_start,
                handler_calls, results_at_start, last_eval, last_set,
                returned>>

\* rule.check(fact_base, registry) is entered
check_begin(conditions) ==
    /\ NotInCheck
    /\ checking' = [state |-> "running", conditions |-> conditions,
                    idx |-> 1, looked_up |-> <<>>, invoked |-> <<>>,
                    outcome |-> "none", fact_base |-> facts]
    /\ CheckOnly

\* the generator yields the next condition.evaluate(...)
check_step ==
    /\ checking.state = "running"
    /\ checking.idx <= Len(checking.conditions)
    /\ LET i == checking.idx
           cond == checking.conditions[i]
           present == FactHas(facts, cond.fact_name)
           found == present /\ RegistryHas(evaluators, cond.operator)
           value == Evaluate(cond, facts, evaluators)
           seen == [checking EXCEPT
                       !.looked_up = IF present THEN Append(@, i) ELSE @,
                       !.invoked = IF found THEN Append(@, i) ELSE @]
       IN checking' =
              IF value = "ValueError"
              THEN [seen EXCEPT !.state = "raised", !.outcome = value]
              ELSE IF AllStops(value)
              THEN [seen EXCEPT !.state = "returned", !.outcome = "False"]
              ELSE [seen EXCEPT !.idx = i + 1]
    /\ CheckOnly

\* the generator is exhausted: all() is true
check_end ==
    /\ checking.state = "running"
    /\ checking.idx > Len(checking.conditions)
    /\ checking' = [checking EXCEPT !.state = "returned", !.outcome = "True"]
    /\ CheckOnly

NextCheck ==
    \/ \E v \in ValuePool : fact_set("test", v, TRUE)
    \/ fact_clear
    \/ \E cs \in ConditionLists : check_begin(cs)
    \/ check_step
    \/ check_end

SpecCheck == Init /\ [][NextCheck]_vars

----------------------------------------------------------------------------
(* What a pass has done so far.                                            *)

InPass == pc \in {"loop", "exec", "done", "raised"}

\* the names the current pass appended to fired_rules
FiredThisPass == SubSeq(fired_rules, fired_at_start + 1, Len(fired_rules))

\* how many positions of sorted_rules the pass has checked to the end
Processed ==
    CASE pc = "loop" -> rule_idx - 1
      [] pc = "exec" -> rule_idx
      [] pc = "done" -> Len(sorted_rules)
      [] pc = "raised" ->
             IF error = "ValueError: Unknown operator" THEN rule_idx - 1
             ELSE rule_idx
      [] OTHER -> 0

\* the rule at list position i is satisfied by the facts
Satisfied(i) == Check(rules[i], facts, evaluators) = "True"

\* the list positions, in pass order, of the rules checked and satisfied
FiredPositions == SelectSeq(SubSeq(sorted_rules, 1, Processed), Satisfied)

NamesOf(positions) == [k \in 1..Len(positions) |-> rules[positions[k]].name]

RECURSIVE ActionTypesOf(_)
ActionTypesOf(positions) ==
    IF positions = <<>> THEN <<>>
    ELSE [k \in 1..Len(rules[Head(positions)].actions) |->
             rules[Head(positions)].actions[k].action_type]
         \o ActionTypesOf(Tail(positions))

\* order lists every position of rs once, higher priority first, equal
\* priorities in list order
IsPriorityOrder(order, rs) ==
    /\ Len(order) = Len(rs)
    /\ {order[k] : k \in 1..Len(order)} = 1..Len(rs)
    /\ \A a, b \in 1..Len(order) :
          a < b => \/ rs[order[a]].priority > rs[order[b]].priority
                   \/ /\ rs[order[a]].priority = rs[order[b]].priority
                      /\ order[a] < order[b]

\* the evaluator registered for cond's operator raises on the stored value
OperatorRaises(cond, fb, registry) ==
    /\ FactHas(fb, cond.fact_name)
    /\ RegistryHas(registry, cond.operator)
    /\ Call(registry[cond.operator], fb[cond.fact_name], cond.value)
           \notin {"True", "False"}

\* checking the rule reaches a condition whose evaluator raises
RECURSIVE ReachesRaisingOperator(_, _, _)
ReachesRaisingOperator(conditions, fb, registry) ==
    /\ conditions # <<>>
    /\ \/ OperatorRaises(Head(conditions), fb, registry)
       \/ /\ Evaluate(Head(conditions), fb, registry) = "True"
          /\ ReachesRaisingOperator(Tail(conditions), fb, registry)

\* some condition of some registered rule names an operator never registered
HasUnknownOperator ==
    \E i \in 1..Len(rules) : \E k \in 1..Len(rules[i].conditions) :
        ~RegistryHas(evaluators, rules[i].conditions[k].operator)

----------------------------------------------------------------------------
(* The claims.                                                             *)

\* C1 (as claimed): once a registered rule names an unregistered operator,
\* the rule set is rejected: no pass over it completes without the error,
\* no rule fires in it and no action handler runs.
C1_UnknownOperatorRejected ==
    (InPass /\ HasUnknownOperator) =>
        /\ pc # "done"
        /\ FiredThisPass = <<>>
        /\ handler_calls = <<>>

C3_BuiltinsRegistered ==
    \A name \in {"gte", "lte", "gt", "lt", "between", "eq", "neq", "in",
                 "contains"} :
        /\ RegistryHas(evaluators, name)
        /\ RegistryGet(evaluators, name) # "ValueError"

\* C4 (as claimed): with the default registry a condition with operator eq
\* on a present fact is true exactly when the fact equals the expected
\* value, and one with operator neq exactly when it differs.
C4_EqIsEquality ==
    (last_eval.outcome # "none" /\ FactHas(facts, last_eval.cond.fact_name)) =>
        LET same == PyEq(facts[last_eval.cond.fact_name], last_eval.cond.value)
        IN /\ last_eval.cond.operator = "eq" =>
                 (last_eval.outcome = "True" <=> same)
           /\ last_eval.cond.operator = "neq" =>
                 (last_eval.outcome = "True" <=> ~same)

C6_ResetRestoresFresh ==
    [][reset => /\ facts' = EmptyDict
                /\ fired_rules' = <<>>
                /\ results' = StudentResults]_vars

ScenarioAFacts ==
    [assignments |-> PyInt(55), report |-> PyInt(60), test |-> PyInt(45)]

NamesAbsentFact(i) ==
    \E k \in 1..Len(rules[i].conditions) :
        ~FactHas(facts, rules[i].conditions[k].fact_name)

\* C9: a condition on a fact the store does not hold evaluates to false
\* without raising, whatever its operator (registered or not) and expected
\* value; a rule with such a condition is never executing and never among
\* the rules a pass fired.
C9_AbsentFactIsFalse ==
    /\ \A c \in ConditionPool :
          ~FactHas(facts, c.fact_name) =>
              Evaluate(c, facts, evaluators) = "False"
    /\ InPass =>
          /\ pc = "exec" => ~NamesAbsentFact(sorted_rules[rule_idx])
          /\ \A m \in 1..Len(FiredPositions) :
                ~NamesAbsentFact(FiredPositions[m])
          /\ FiredThisPass = NamesOf(FiredPositions)

\* C9 witness: a pass returned that checked a rule whose condition names
\* an absent fact and an unregistered operator.
C9_Witness ==
    /\ pc = "done"
    /\ \E i \in 1..Len(rules) :
          /\ NamesAbsentFact(i)
          /\ \E k \in 1..Len(rules[i].conditions) :
                ~RegistryHas(evaluators, rules[i].conditions[k].operator)

C11_DefensiveCopy == [][CallerMutates => UNCHANGED <<facts, results>>]_vars


\* the values Python takes as false: 0 and the empty str, list and tuple
FalsyValues == {PyInt(0), PyStr(<<>>), PyList(<<>>), PyTuple(<<>>)}

\* C12: FactBase.set(name, value, overwrite) leaves the store as it was
\* exactly when overwrite is false and a truthy value is stored under name;
\* when name is absent or holds a falsy value, or overwrite is true, value
\* is stored under name and every other fact is kept.
C12_SetOverwritePolicy ==
    last_set.called =>
        LET before == last_set.before
            name == last_set.name
            noop == /\ ~last_set.overwrite
                    /\ name \in DOMAIN before
                    /\ before[name] \notin FalsyValues
        IN IF noop THEN facts = before
           ELSE /\ DOMAIN facts = (DOMAIN before) \cup {name}
                /\ facts[name] = last_set.value
                /\ \A k \in (DOMAIN before) \ {name} : facts[k] = before[k]

\* C12 witness: set with overwrite=False replaced a stored 0.
C12_Witness ==
    /\ last_set.called
    /\ ~last_set.overwrite
    /\ "test" \in DOMAIN last_set.before
    /\ last_set.before["test"] = PyInt(0)
    /\ facts["test"] = PyInt(45)


\* C13: for an integer fact v and an expected pair of integers (lo, hi) a
\* between condition is true exactly when lo <= v and v < hi: true at
\* v = lo (when lo < hi), false at v = hi.
C13_BetweenHalfOpen ==
    (/\ last_eval.outcome # "none"
     /\ last_eval.cond.operator = "between"
     /\ FactHas(facts, last_eval.cond.fact_name)
     /\ facts[last_eval.cond.fact_name].t = "int"
     /\ last_eval.cond.value.t = "tuple"
     /\ Len(last_eval.cond.value.v) = 2
     /\ \A i \in 1..2 : last_eval.cond.value.v[i].t = "int") =>
        LET v == facts[last_eval.cond.fact_name].v
            lo == last_eval.cond.value.v[1].v
            hi == last_eval.cond.value.v[2].v
        IN /\ last_eval.outcome \in {"True", "False"}
           /\ last_eval.outcome = "True" <=> (lo <= v /\ v < hi)

\* C13 witness: between was evaluated at the upper bound, v = hi = 60 with
\* lo = 45, and was false.
C13_Witness ==
    /\ last_eval.cond = Condition("test", "between",
                                  PyTuple(<<PyInt(45), PyInt(60)>>))
    /\ FactHas(facts, "test")
    /\ facts["test"] = PyInt(60)
    /\ last_eval.outcome = "False"


\* the value of the condition at position i of the list being checked
CheckedValue(i) ==
    Evaluate(checking.conditions[i], checking.fact_base, evaluators)

\* a condition before position i of the list being checked is not true
FailsBefore(i) == \E j \in 1..(i - 1) : CheckedValue(j) # "True"

\* C14: Rule.check takes the conditions in declared order and stops at the
\* first that is not true: no operator of a later condition is looked up or
\* invoked, so a check whose first failing condition is false returns false
\* even when a later condition names an unregistered operator.
C14_ShortCircuit ==
    checking.state # "none" =>
        /\ \A m \in 1..Len(checking.looked_up) :
              /\ ~FailsBefore(checking.looked_up[m])
              /\ m > 1 => checking.looked_up[m - 1] < checking.looked_up[m]
        /\ \A m \in 1..Len(checking.invoked) :
              /\ ~FailsBefore(checking.invoked[m])
              /\ m > 1 => checking.invoked[m - 1] < checking.invoked[m]
        /\ checking.state \in {"returned", "raised"} =>
              /\ checking.outcome =
                     AllConditions(checking.conditions, checking.fact_base,
                                   evaluators)
              /\ (\E i \in 1..Len(checking.conditions) :
                     CheckedValue(i) = "False" /\ ~FailsBefore(i))
                 => checking.outcome = "False"

\* C14 witness: a check returned false at a condition that is followed by
\* one naming an unregistered operator on a present fact, which was neither
\* looked up nor invoked.
C14_Witness ==
    /\ checking.state = "returned"
    /\ checking.outcome = "False"
    /\ \E i \in 1..Len(checking.conditions) :
          /\ i > checking.idx
          /\ FactHas(checking.fact_base, checking.conditions[i].fact_name)
          /\ ~RegistryHas(evaluators, checking.conditions[i].operator)
    /\ Len(checking.looked_up) = checking.idx


\* a step of run_evaluation: its entry, or a step taken inside the pass
PassStep == run_evaluation \/ pc \in {"loop", "exec"}

InExecute ==
    \/ pc = "exec"
    \/ pc = "raised" /\ error # "ValueError: Unknown operator"

\* how many actions of the current rule have had their handler called
HandlersCalled ==
    IF pc = "raised" /\ error # "ValueError: Unknown action type"
    THEN action_idx
    ELSE action_idx - 1

RECURSIVE ActionsOf(_)
ActionsOf(positions) ==
    IF positions = <<>> THEN <<>>
    ELSE rules[Head(positions)].actions \o ActionsOf(Tail(positions))

\* the actions whose handler the pass has called, in order: all those of the
\* rules fired before the current one, then the first of the current rule
CalledActions ==
    ActionsOf(SubSeq(FiredPositions, 1, Len(FiredPositions) - 1))
        \o SubSeq(CurrentRule.actions, 1, HandlersCalled)

\* results after the handlers of the given actions ran on res, each keeping
\* whatever it wrote, also when it raised
RECURSIVE ResultsAfter(_, _)
ResultsAfter(res, actions) ==
    IF actions = <<>> THEN res
    ELSE ResultsAfter(
             CallHandler(HandlerGet(handlers, Head(actions).action_type),
                         res, Head(actions).parameters).results,
             Tail(actions))

====
